---- MODULE Spec2Model ----
(***************************************************************************)
(* A model of mmap_overhead_estimator.c: the helpers parse_size,           *)
(* get_vmpte_kb, calculate_overhead and check_thp_status, and main as a    *)
(* sequential state machine over the calls it makes to the kernel.         *)
(*                                                                         *)
(* The program computes on size_t and unsigned long long (64 bits on the   *)
(* LP64 Linux targets that define MAP_HUGE_2MB / MAP_HUGE_1GB).  Those     *)
(* values exceed the integers TLC evaluates, so an unsigned value here is *)
(* a little-endian sequence of limbs in radix Base without leading zero    *)
(* limbs (zero is << >>); the operators Nat* compute over the mathematical *)
(* naturals, and Wrap reduces modulo 2^64 the way C's unsigned arithmetic  *)
(* does.                                                                   *)
(***************************************************************************)
EXTENDS Integers, Sequences, FiniteSets, TLC

\* ------------------------------------------------------------------------
\* Unsigned arithmetic
\* ------------------------------------------------------------------------

\* Radix of one limb (one byte of the object representation).
Base == 256

\* sizeof(size_t) = sizeof(unsigned long long) = 8 on LP64.
SizeBytes == 8

Limb(a, k) == IF k <= Len(a) THEN a[k] ELSE 0

RECURSIVE Norm(_)
Norm(a) ==
    IF a = << >> THEN << >>
    ELSE IF a[Len(a)] = 0 THEN Norm(SubSeq(a, 1, Len(a) - 1))
    ELSE a

RECURSIVE NatOfInt(_)
NatOfInt(n) == IF n = 0 THEN << >> ELSE <<n % Base>> \o NatOfInt(n \div Base)

RECURSIVE AddLimbs(_, _, _, _)
AddLimbs(a, b, k, c) ==
    IF k > Len(a) /\ k > Len(b)
    THEN (IF c = 0 THEN << >> ELSE <<c>>)
    ELSE LET s == Limb(a, k) + Limb(b, k) + c
         IN  <<s % Base>> \o AddLimbs(a, b, k + 1, s \div Base)

NatAdd(a, b) == AddLimbs(a, b, 1, 0)

RECURSIVE LessFrom(_, _, _)
LessFrom(a, b, k) ==
    IF k = 0 THEN FALSE
    ELSE IF a[k] # b[k] THEN a[k] < b[k]
    ELSE LessFrom(a, b, k - 1)

NatLess(a, b) ==
    IF Len(a) # Len(b) THEN Len(a) < Len(b) ELSE LessFrom(a, b, Len(a))

NatLeq(a, b) == a = b \/ NatLess(a, b)

\* a - b for a >= b.
RECURSIVE SubLimbs(_, _, _, _)
SubLimbs(a, b, k, borrow) ==
    IF k > Len(a) THEN << >>
    ELSE LET d == a[k] - Limb(b, k) - borrow
         IN  <<(d + Base) % Base>> \o SubLimbs(a, b, k + 1, IF d < 0 THEN 1 ELSE 0)

NatSub(a, b) == Norm(SubLimbs(a, b, 1, 0))

\* a * m for a machine-sized m (m < 2^22).
RECURSIVE MulLimbs(_, _, _, _)
MulLimbs(a, m, k, c) ==
    IF k > Len(a) THEN NatOfInt(c)
    ELSE LET p == a[k] * m + c
         IN  <<p % Base>> \o MulLimbs(a, m, k + 1, p \div Base)

NatMulSmall(a, m) == Norm(MulLimbs(a, m, 1, 0))

ShiftLimb(a) == IF a = << >> THEN << >> ELSE <<0>> \o a

RECURSIVE NatMul(_, _)
NatMul(a, b) ==
    IF b = << >> THEN << >>
    ELSE NatAdd(NatMulSmall(a, b[1]), ShiftLimb(NatMul(a, Tail(b))))

\* The largest q in acc .. acc + 2w - 1 with q * b <= r (binary descent).
RECURSIVE QuotDigit(_, _, _, _)
QuotDigit(r, b, acc, w) ==
    IF w = 0 THEN acc
    ELSE IF NatLeq(NatMulSmall(b, acc + w), r)
         THEN QuotDigit(r, b, acc + w, w \div 2)
         ELSE QuotDigit(r, b, acc, w \div 2)

\* Long division of a by b # 0, most significant limb first: the quotient
\* and remainder of limbs k..Len(a) of a.
RECURSIVE DivFrom(_, _, _)
DivFrom(a, b, k) ==
    IF k > Len(a) THEN [q |-> << >>, r |-> << >>]
    ELSE LET up == DivFrom(a, b, k + 1)
             r1 == Norm(<<a[k]>> \o up.r)
             d  == QuotDigit(r1, b, 0, Base \div 2)
         IN  [q |-> <<d>> \o up.q, r |-> NatSub(r1, NatMulSmall(b, d))]

NatDiv(a, b) == Norm(DivFrom(a, b, 1).q)
NatMod(a, b) == DivFrom(a, b, 1).r

\* Reduction modulo 2^(8 * SizeBytes): what an unsigned result keeps.
Wrap(a) == IF Len(a) <= SizeBytes THEN a ELSE Norm(SubSeq(a, 1, SizeBytes))

ULLONG_MAX == [k \in 1..SizeBytes |-> Base - 1]

\* 2^64, one past the largest value.
TwoPow64 == NatAdd(ULLONG_MAX, <<1>>)

\* ------------------------------------------------------------------------
\* Strings: a C string is the sequence of its characters; the terminating
\* '\0' is what is read one past the last character.
\* ------------------------------------------------------------------------

NUL == "NUL"

CharAt(s, p) == IF p <= Len(s) THEN s[p] ELSE NUL

DigitChars == <<"0", "1", "2", "3", "4", "5", "6", "7", "8", "9">>

isdigit(c) == \E d \in 1..Len(DigitChars) : DigitChars[d] = c

DigitVal(c) == (CHOOSE d \in 1..Len(DigitChars) : DigitChars[d] = c) - 1

\* The "C" locale's white space (without '\v', which a string here cannot spell).
isspace(c) == c \in {" ", "\t", "\n", "\f", "\r"}

\* errno values (Linux).
ENOMEM == 12
EINVAL == 22
ERANGE == 34

RECURSIVE SkipSpace(_, _)
SkipSpace(s, p) == IF isspace(CharAt(s, p)) THEN SkipSpace(s, p + 1) ELSE p

RECURSIVE DigitsEnd(_, _)
DigitsEnd(s, p) == IF isdigit(CharAt(s, p)) THEN DigitsEnd(s, p + 1) ELSE p

\* 10^k.
RECURSIVE Pow10(_)
Pow10(k) ==
    IF k <= 9 THEN NatOfInt(10^k) ELSE NatMul(Pow10(k - 9), NatOfInt(10^9))

\* The number the decimal digits s[p] .. s[e-1] spell (by halves).
RECURSIVE DecimalValue(_, _, _)
DecimalValue(s, p, e) ==
    IF e <= p THEN << >>
    ELSE IF e = p + 1 THEN NatOfInt(DigitVal(s[p]))
    ELSE LET m == (p + e) \div 2
         IN  NatAdd(NatMul(DecimalValue(s, p, m), Pow10(e - m)),
                    DecimalValue(s, m, e))

\* -n in unsigned long long.
Negate(n) == IF n = << >> THEN << >> ELSE NatSub(TwoPow64, n)

\* strtoull(nptr, &endptr, 10) with errno = err on entry: white space, an
\* optional sign, decimal digits.  endptr is the position (from 1) of the
\* first character not consumed; with no digits nothing is consumed.  A value
\* past ULLONG_MAX gives ULLONG_MAX and ERANGE; a minus sign negates the
\* value in the unsigned type.
strtoull(nptr, err) ==
    LET s0   == SkipSpace(nptr, 1)
        sign == CharAt(nptr, s0)
        d0   == IF sign \in {"-", "+"} THEN s0 + 1 ELSE s0
        e    == DigitsEnd(nptr, d0)
        n    == DecimalValue(nptr, d0, e)
    IN  IF e = d0
        THEN [val |-> << >>, endptr |-> 1, errno |-> err]
        ELSE IF NatLess(ULLONG_MAX, n)
        THEN [val |-> ULLONG_MAX, endptr |-> e, errno |-> ERANGE]
        ELSE [val |-> IF sign = "-" THEN Negate(n) ELSE n,
              endptr |-> e, errno |-> err]

\* ------------------------------------------------------------------------
\* parse_size
\* ------------------------------------------------------------------------

\* The diagnostics parse_size writes to stderr.
MsgNotANumber == "Invalid size value. Not a valid number."
MsgTooLarge   == "Size value is too large."
MsgBadSuffix  == "Invalid size suffix. Use K, M, or G."
MsgTrailing   == "Trailing characters after suffix"
MsgOverflow   == "Size value causes overflow."
MsgZero       == "Mapping size cannot be zero."
NoMsg         == "(none)"

\* The multiplier the switch on the suffix selects.
Multiplier(suffix) ==
    CASE suffix \in {"G", "g"} -> NatOfInt(1024 * 1024 * 1024)
      [] suffix \in {"M", "m"} -> NatOfInt(1024 * 1024)
      [] suffix \in {"K", "k"} -> NatOfInt(1024)
      [] OTHER                 -> NatOfInt(1)

\* A parse_size that multiplies without the overflow check.
MulNeverOverflows(val_ull, multiplier) == FALSE

\* The check before the multiplication: val_ull > ULLONG_MAX / multiplier.
MulOverflows(val_ull, multiplier) ==
    NatLess(NatDiv(ULLONG_MAX, multiplier), val_ull)

\* parse_size(size_str) entered with errno = err: the value returned, the
\* diagnostic written and errno on return.
parse_size(size_str, err) ==
    LET r          == strtoull(size_str, err)
        val_ull    == r.val
        endptr     == r.endptr
        suffix     == CharAt(size_str, endptr)
        multiplier == Multiplier(suffix)
        final_size == Wrap(NatMul(val_ull, multiplier))
        Fail(m)    == [ret |-> << >>, msg |-> m, errno |-> r.errno]
    IN  IF endptr = 1 \/ (val_ull = << >> /\ r.errno # 0)
        THEN Fail(MsgNotANumber)
        ELSE IF val_ull = ULLONG_MAX /\ r.errno = ERANGE
        THEN Fail(MsgTooLarge)
        ELSE IF suffix # NUL /\ suffix \notin {"G", "g", "M", "m", "K", "k"}
        THEN Fail(MsgBadSuffix)
        ELSE IF suffix # NUL /\ CharAt(size_str, endptr + 1) # NUL
        THEN Fail(MsgTrailing)
        ELSE IF MulOverflows(val_ull, multiplier)
        THEN Fail(MsgOverflow)
        ELSE IF final_size = << >> /\ val_ull = << >>
        THEN Fail(MsgZero)
        ELSE [ret |-> final_size, msg |-> NoMsg, errno |-> r.errno]

\* ------------------------------------------------------------------------
\* get_vmpte_kb, calculate_overhead, check_thp_status
\* ------------------------------------------------------------------------

PAGE_SIZE_4K == NatOfInt(4 * 1024)
PAGE_SIZE_2M == NatOfInt(2 * 1024 * 1024)
PAGE_SIZE_1G == NatOfInt(1 * 1024 * 1024 * 1024)

PTE_SIZE == 8

\* /proc/<pid>/status as get_vmpte_kb reads it: whether fopen succeeds, and
\* the lines, each with the field name that starts it, whether sscanf("%ld")
\* converts what follows, and the number converted.
RECURSIVE ScanStatus(_, _)
ScanStatus(lines, k) ==
    IF k > Len(lines) THEN -1
    ELSE IF lines[k].key = "VmPTE:"
         THEN (IF lines[k].parses THEN lines[k].num ELSE -1)
         ELSE ScanStatus(lines, k + 1)

get_vmpte_kb(f) == IF ~f.opens THEN -1 ELSE ScanStatus(f.lines, 1)

calculate_overhead(total, page) ==
    IF page = << >> THEN << >>
    ELSE LET num_pages == NatDiv(Wrap(NatSub(NatAdd(total, page), <<1>>)), page)
         IN  Wrap(NatMulSmall(num_pages, PTE_SIZE))

\* /sys/kernel/mm/transparent_hugepage/enabled as check_thp_status reads it:
\* whether fopen succeeds, and for each line the bracketed words it contains.
RECURSIVE ScanThp(_, _)
ScanThp(lines, k) ==
    IF k > Len(lines) THEN "THP_UNKNOWN"
    ELSE IF "[always]" \in lines[k] THEN "THP_ALWAYS"
    ELSE IF "[madvise]" \in lines[k] THEN "THP_MADVISE"
    ELSE IF "[never]" \in lines[k] THEN "THP_NEVER"
    ELSE ScanThp(lines, k + 1)

check_thp_status(f) == IF ~f.opens THEN "THP_UNKNOWN" ELSE ScanThp(f.lines, 1)

\* ------------------------------------------------------------------------
\* The environment of one run
\* ------------------------------------------------------------------------

\* Longest generated size string, largest VmPTE reading, and the largest
\* mapping the kernel grants, counted in strides of the chosen mode.
MaxLen     == 3
MaxVmPTE   == 1
MaxStrides == 3

SizeAlphabet == {"0", "1", "9", "K", "m", "X", "-", " "}

RECURSIVE StringsUpTo(_)
StringsUpTo(n) ==
    IF n = 0 THEN {<< >>}
    ELSE LET shorter == StringsUpTo(n - 1)
         IN  shorter \cup {Append(s, c) : s \in shorter, c \in SizeAlphabet}

\* Size strings at the edges of the 64-bit range and the examples of the
\* documentation.
EdgeSizes ==
    { <<"1", "G">>, <<"2", "5", "6", "M">>, <<"5", "1", "2", "K">>,
      <<"a", "b", "c">>, <<"1", "0", "X", "5">>, <<"1", "0", "K", "5">>,
      <<"+", "5", "g">>, <<"\t", "7">>, <<"-", "1", "G">>,
      <<"1","8","4","4","6","7","4","4","0","7","3","7","0","9","5","5","1","6","1","5">>,
      <<"1","8","4","4","6","7","4","4","0","7","3","7","0","9","5","5","1","6","1","6">>,
      <<"1","8","4","4","6","7","4","4","0","7","3","7","0","9","5","5","1","6","1","6","X">>,
      <<"9","9","9","9","9","9","9","9","9","9","9","9","9","9","9","9","9","9","9","9","9","K">>,
      <<"1","8","0","1","4","3","9","8","5","0","9","4","8","1","9","8","3","K">>,
      <<"1","8","0","1","4","3","9","8","5","0","9","4","8","1","9","8","4","k">>,
      <<"1","8","0","1","4","3","9","8","5","0","9","4","8","1","9","8","5","K">>,
      <<"1","7","5","9","2","1","8","6","0","4","4","4","1","5","M">>,
      <<"1","7","5","9","2","1","8","6","0","4","4","4","1","6","m">>,
      <<"1","7","1","7","9","8","6","9","1","8","3","G">>,
      <<"1","7","1","7","9","8","6","9","1","8","4","g">> }

\* The size strings parse_size is exercised on.
ParseStrings == StringsUpTo(MaxLen) \cup EdgeSizes

\* argv[1] of the runs of main.
SizeArgs ==
    { <<"1">>, <<"4","0","9","6">>, <<"4","0","9","7">>, <<"8","K">>,
      <<"9","0","0","0">>, <<"1","2","k">>, <<"1","6","K">>, <<"2","M">>, <<"3","M">>, <<"4","m">>,
      <<"8","M">>, <<"1","G">>, <<"2","g">>, <<"4","G">>,
      <<"0">>, <<"a","b","c">>, <<"1","0","X">>, <<"1","0","K","5">>,
      <<"-","1">>, <<" ","5">>,
      <<"1","8","4","4","6","7","4","4","0","7","3","7","0","9","5","5","1","6","1","6">> }

\* argv[2] of the runs of main.
ModeArgs ==
    { <<"4","k">>, <<"t","h","p">>, <<"2","m">>, <<"1","g">>,
      <<"6","4","k">>, <<"2","M">>, << >> }

ArgCounts == {2, 3, 4}

StatusFiles ==
    { [opens |-> FALSE, lines |-> << >>],
      [opens |-> TRUE, lines |-> <<[key |-> "Name:", parses |-> FALSE, num |-> 0]>>],
      [opens |-> TRUE, lines |-> <<[key |-> "Name:", parses |-> FALSE, num |-> 0],
                                   [key |-> "VmPTE:", parses |-> FALSE, num |-> 0]>>] }
    \cup { [opens |-> TRUE, lines |-> <<[key |-> "VmData:", parses |-> TRUE, num |-> MaxVmPTE + 1],
                                        [key |-> "VmPTE:", parses |-> TRUE, num |-> v]>>]
           : v \in 0..MaxVmPTE }

ThpFiles ==
    { [opens |-> FALSE, lines |-> << >>],
      [opens |-> TRUE, lines |-> <<{}>>],
      [opens |-> TRUE, lines |-> <<{"[always]"}>>],
      [opens |-> TRUE, lines |-> <<{"[madvise]"}>>],
      [opens |-> TRUE, lines |-> <<{}, {"[never]"}>>] }

\* Where the kernel places a mapping; MAP_FAILED is (void *) -1.
MapAddrs   == {<<0, 0, 0, 64, 0, 127>>}
MAP_FAILED == ULLONG_MAX
NULL       == << >>

MmapErrnos == {ENOMEM, EINVAL}

\* Page sizes calculate_overhead is exercised on, and the totals.
OverheadPages ==
    { << >>, <<1>>, <<3>>, PAGE_SIZE_4K, PAGE_SIZE_2M, PAGE_SIZE_1G, ULLONG_MAX }

OverheadTotals ==
    { << >>, <<1>>, <<7>>, NatOfInt(4095), PAGE_SIZE_4K, NatOfInt(4097),
      NatOfInt(1048576), NatOfInt(5 * 1024 * 1024), PAGE_SIZE_2M, PAGE_SIZE_1G,
      NatMulSmall(PAGE_SIZE_1G, 3), NatSub(TwoPow64, PAGE_SIZE_1G),
      NatSub(TwoPow64, PAGE_SIZE_4K), NatSub(ULLONG_MAX, NatOfInt(4095)),
      NatSub(ULLONG_MAX, <<1>>), ULLONG_MAX }

\* ------------------------------------------------------------------------
\* main
\* ------------------------------------------------------------------------

VARIABLES
    argc, argv,            \* the command line: argv[1], argv[2] as strings
    pc,                    \* where main stands
    exit_status,           \* what main returned (-1 while it runs)
    errno,
    map_size, mode, mmap_flags, huge_page_size, touch_step_size,
    thp_status, vmpte_before, vmpte_after,
    addr, i, touched_count,
    mem,                   \* the bytes written through ptr: offset and value
    mappings,              \* the kernel's live mappings of the process
    calls,                 \* the library and system calls made, in order
    out,                   \* the lines written to stdout and stderr, in order
    total_size, page_size, overhead  \* a call of calculate_overhead on its own

vars == <<argc, argv, pc, exit_status, errno, map_size, mode, mmap_flags,
          huge_page_size, touch_step_size, thp_status, vmpte_before,
          vmpte_after, addr, i, touched_count, mem, mappings, calls, out,
          total_size, page_size, overhead>>

cmdline  == <<argc, argv>>
policy   == <<mode, mmap_flags, huge_page_size, touch_step_size>>
probes   == <<thp_status, vmpte_before, vmpte_after>>
region   == <<addr, mappings>>
touching == <<i, touched_count, mem>>
harness  == <<total_size, page_size, overhead>>

Out(text, args) == [stream |-> "stdout", text |-> text, args |-> args]
Err(text, args) == [stream |-> "stderr", text |-> text, args |-> args]

Call(fn, a, len, arg, ret) ==
    [fn |-> fn, addr |-> a, len |-> len, arg |-> arg, ret |-> ret]

\* return code; from main.
Return(code) == pc' = "exited" /\ exit_status' = code

Goto(label) == pc' = label /\ exit_status' = exit_status

\* No call of calculate_overhead on its own is under way.
NoHarness == total_size = << >> /\ page_size = << >> /\ overhead = << >>

\* The state main starts in, for a given command line.
Start(c, v) ==
    /\ argc = c
    /\ argv = v
    /\ exit_status = -1
    /\ errno = 0
    /\ map_size = << >>
    /\ mode = "unset"
    /\ mmap_flags = {}
    /\ huge_page_size = << >>
    /\ touch_step_size = << >>
    /\ thp_status = "unset"
    /\ vmpte_before = -1
    /\ vmpte_after = -1
    /\ addr = NULL
    /\ i = << >>
    /\ touched_count = << >>
    /\ mem = {}
    /\ mappings = {}
    /\ calls = << >>
    /\ out = << >>

Init ==
    /\ pc = "main"
    /\ NoHarness
    /\ \E c \in ArgCounts :
         \E s \in SizeArgs, m \in ModeArgs :
            Start(c, SubSeq(<<s, m, m>>, 1, c - 1))

\* if (argc != 3) { usage; return 1; }
CheckArgc ==
    /\ pc = "main"
    /\ IF argc # 3
       THEN /\ out' = Append(out, Err("Usage", << >>))
            /\ Return(1)
       ELSE /\ out' = out
            /\ Goto("parse_size")
    /\ UNCHANGED <<cmdline, errno, map_size, policy, probes, region, touching,
                   calls, harness>>

\* size_t map_size = parse_size(argv[1]); if (map_size == 0) return 1;
ParseSizeArg ==
    /\ pc = "parse_size"
    /\ LET r == parse_size(argv[1], errno)
       IN  /\ map_size' = r.ret
           /\ errno' = r.errno
           /\ out' = IF r.msg = NoMsg THEN out ELSE Append(out, Err(r.msg, << >>))
           /\ IF r.ret = << >> THEN Return(1) ELSE Goto("parse_mode")
    /\ UNCHANGED <<cmdline, policy, probes, region, touching, calls, harness>>

\* A chain that compares without regard to case (strcasecmp).
ModeOfNoCase(token) ==
    IF token \in {<<"4", "k">>, <<"4", "K">>} THEN "MODE_4K"
    ELSE IF token \in {<<"t", "h", "p">>, <<"T", "H", "P">>} THEN "MODE_THP"
    ELSE IF token \in {<<"2", "m">>, <<"2", "M">>} THEN "MODE_2M"
    ELSE IF token \in {<<"1", "g">>, <<"1", "G">>} THEN "MODE_1G"
    ELSE "invalid"

\* The strcmp chain on argv[2]: the mode, "invalid" for any other token.
ModeOf(token) ==
    IF token = <<"4", "k">> THEN "MODE_4K"
    ELSE IF token = <<"t", "h", "p">> THEN "MODE_THP"
    ELSE IF token = <<"2", "m">> THEN "MODE_2M"
    ELSE IF token = <<"1", "g">> THEN "MODE_1G"
    ELSE "invalid"

\* What each branch of the chain sets: the flags of the mapping, the huge
\* page size, the stride of the touch loop and the banner; the declarations
\* before the chain give the defaults.
ModeSettings(m) ==
    LET base == [flags |-> {"MAP_PRIVATE", "MAP_ANONYMOUS"},
                 huge |-> << >>, step |-> PAGE_SIZE_4K, banner |-> ""]
    IN  CASE m = "MODE_4K" ->
               [base EXCEPT !.banner = "Mode: Attempting 4KB pages (using MADV_NOHUGEPAGE hint)"]
          [] m = "MODE_THP" ->
               [base EXCEPT !.banner = "Mode: Standard anonymous mapping (allowing THP)"]
          [] m = "MODE_2M" ->
               [base EXCEPT !.flags = @ \cup {"MAP_HUGETLB", "MAP_HUGE_2MB"},
                            !.huge = PAGE_SIZE_2M, !.step = PAGE_SIZE_2M,
                            !.banner = "Mode: Explicit 2MB HugeTLB pages"]
          [] m = "MODE_1G" ->
               [base EXCEPT !.flags = @ \cup {"MAP_HUGETLB", "MAP_HUGE_1GB"},
                            !.huge = PAGE_SIZE_1G, !.step = PAGE_SIZE_1G,
                            !.banner = "Mode: Explicit 1GB HugeTLB pages"]
          [] OTHER -> base

ParseMode ==
    /\ pc = "parse_mode"
    /\ LET m == ModeOf(argv[2])
           s == ModeSettings(m)
       IN  /\ mode' = m
           /\ mmap_flags' = s.flags
           /\ huge_page_size' = s.huge
           /\ touch_step_size' = s.step
           /\ IF m # "invalid"
              THEN /\ out' = Append(out, Out(s.banner, << >>))
                   /\ Goto("pre_mmap")
              ELSE /\ out' = Append(out, Err("Error: Invalid mode", <<argv[2]>>))
                   /\ Return(1)
    /\ UNCHANGED <<cmdline, errno, map_size, probes, region, touching, calls,
                   harness>>

\* An alignment check that forgets the 1GB mode.
MisalignedOnly2M(m, size, huge) ==
    m = "MODE_2M" /\ NatMod(size, huge) # << >>

\* (mode == MODE_2M || mode == MODE_1G) && (map_size % huge_page_size != 0)
Misaligned(m, size, huge) ==
    m \in {"MODE_2M", "MODE_1G"} /\ NatMod(size, huge) # << >>

PreMmapCheck ==
    /\ pc = "pre_mmap"
    /\ IF Misaligned(mode, map_size, huge_page_size)
       THEN /\ out' = Append(out, Err("Error: Mapping size must be a multiple of the huge page size",
                                      <<map_size, huge_page_size, argv[2]>>))
            /\ Return(1)
       ELSE /\ out' = out
            /\ Goto("check_thp")
    /\ UNCHANGED <<cmdline, errno, map_size, policy, probes, region, touching,
                   calls, harness>>

ThpWarnings(m, st) ==
    (IF m \in {"MODE_4K", "MODE_THP"} /\ st = "THP_NEVER"
     THEN <<Out("Warning: System THP is set to 'never'. Kernel will likely use 4KB pages.", << >>)>>
     ELSE << >>)
    \o
    (IF m = "MODE_THP" /\ st = "THP_UNKNOWN"
     THEN <<Out("Warning: Could not determine system THP status.", << >>)>>
     ELSE << >>)

CheckThp ==
    /\ pc = "check_thp"
    /\ \E f \in ThpFiles :
         LET st == check_thp_status(f)
         IN  /\ thp_status' = st
             /\ calls' = Append(calls, Call("check_thp_status", NULL, << >>, "", st))
             /\ out' = out \o ThpWarnings(mode, st)
    /\ Goto("baseline")
    /\ UNCHANGED <<cmdline, errno, map_size, policy, vmpte_before, vmpte_after,
                   region, touching, harness>>

\* long vmpte_before = get_vmpte_kb(); if (vmpte_before < 0) return 1;
Baseline ==
    /\ pc = "baseline"
    /\ \E f \in StatusFiles :
         LET v == get_vmpte_kb(f)
         IN  /\ vmpte_before' = v
             /\ calls' = Append(calls, Call("get_vmpte_kb", NULL, << >>, "", v))
             /\ IF v < 0
                THEN /\ out' = Append(out, Err("Error: Could not get initial VmPTE from /proc/self/status. Aborting.", << >>))
                     /\ Return(1)
                ELSE /\ out' = out \o <<Out("Initial VmPTE", <<v>>),
                                        Out("Mapping size", <<map_size>>),
                                        Out("--- Mapping Memory ---", << >>)>>
                     /\ Goto("mmap")
    /\ UNCHANGED <<cmdline, errno, map_size, policy, thp_status, vmpte_after,
                   region, touching, harness>>

\* The hints printed after a failed mmap.
MmapHints(m, err) ==
    IF m \in {"MODE_2M", "MODE_1G"} /\ err = ENOMEM
    THEN <<Err("Hint: This often means insufficient HugeTLB pages are configured.", << >>)>>
    ELSE IF m \in {"MODE_2M", "MODE_1G"} /\ err = EINVAL
    THEN <<Err("Hint: Check if mapping size is a multiple of huge page size", << >>)>>
    ELSE << >>

\* errno = 0; addr = mmap(NULL, map_size, PROT_READ | PROT_WRITE, mmap_flags, -1, 0);
\* The kernel may refuse any request, and grants none longer than
\* MaxStrides strides.
Mmap ==
    /\ pc = "mmap"
    /\ \/ /\ NatLeq(map_size, NatMulSmall(touch_step_size, MaxStrides))
          /\ \E a \in MapAddrs :
               /\ addr' = a
               /\ mappings' = mappings \cup {[addr |-> a, len |-> map_size]}
               /\ calls' = Append(calls, Call("mmap", NULL, map_size, mmap_flags, a))
          /\ errno' = 0
          /\ out' = out
          /\ Goto("madvise")
       \/ /\ \E e \in MmapErrnos :
               /\ errno' = e
               /\ out' = out \o <<Err("Error: mmap failed", <<e>>)>> \o MmapHints(mode, e)
          /\ addr' = MAP_FAILED
          /\ mappings' = mappings
          /\ calls' = Append(calls, Call("mmap", NULL, map_size, mmap_flags, MAP_FAILED))
          /\ Return(1)
    /\ UNCHANGED <<cmdline, map_size, policy, probes, touching, harness>>

\* A hint policy that prefers huge pages in thp mode whatever the system
\* policy is.
AdviceThpAlways(m, st) ==
    IF m = "MODE_4K" THEN "MADV_NOHUGEPAGE"
    ELSE IF m = "MODE_THP" THEN "MADV_HUGEPAGE"
    ELSE "none"

\* The advice main gives for the region, "none" when it gives none.
Advice(m, st) ==
    IF m = "MODE_4K" THEN "MADV_NOHUGEPAGE"
    ELSE IF m = "MODE_THP" /\ st = "THP_MADVISE" THEN "MADV_HUGEPAGE"
    ELSE "none"

\* The madvise hint, then the header of the touch loop and its initialisation.
Madvise ==
    /\ pc = "madvise"
    /\ LET advice == Advice(mode, thp_status)
           header == Out("--- Touching Memory ---", <<touch_step_size>>)
       IN  \/ /\ advice # "none"
              /\ \E ret \in {0, -1} :
                   /\ calls' = Append(calls, Call("madvise", addr, map_size, advice, ret))
                   /\ errno' = IF ret = -1 THEN EINVAL ELSE errno
                   /\ out' = IF ret = -1
                             THEN out \o <<Err("Warning: madvise failed", <<advice>>), header>>
                             ELSE Append(out, header)
           \/ /\ advice = "none"
              /\ calls' = calls
              /\ errno' = errno
              /\ out' = Append(out, header)
    /\ i' = << >>
    /\ touched_count' = << >>
    /\ mem' = mem
    /\ Goto("touch")
    /\ UNCHANGED <<cmdline, map_size, policy, probes, region, harness>>

\* Whether a byte at offset off from a lies in a live mapping.
Mapped(a, off) ==
    \E m \in mappings : m.addr = a /\ NatLess(off, m.len)

\* An off-by-one loop condition: i <= map_size.
LoopConditionInclusive(idx, size) == NatLeq(idx, size)

\* The condition of the touch loop: i < map_size.
LoopCondition(idx, size) == NatLess(idx, size)

\* for (size_t i = 0; i < map_size; i += touch_step_size)
\*     { ptr[i] = (char)(i % 256); touched_count++; }
\* One evaluation of the loop condition: an iteration, or the exit from the
\* loop and the line that reports the count.  A store outside every mapping
\* kills the process with SIGSEGV.
TouchStep ==
    /\ pc = "touch"
    /\ IF LoopCondition(i, map_size)
       THEN IF Mapped(addr, i)
            THEN /\ mem' = mem \cup {[off |-> i, byte |-> Limb(i, 1)]}
                 /\ touched_count' = Wrap(NatAdd(touched_count, <<1>>))
                 /\ i' = Wrap(NatAdd(i, touch_step_size))
                 /\ out' = out
                 /\ Goto("touch")
            ELSE /\ UNCHANGED <<touching, out>>
                 /\ pc' = "killed"
                 /\ exit_status' = 128 + 11
       ELSE /\ UNCHANGED touching
            /\ out' = Append(out, Out("Touched strides", <<touched_count>>))
            /\ Goto("final_probe")
    /\ UNCHANGED <<cmdline, errno, map_size, policy, probes, region, calls,
                   harness>>

\* A final probe whose failure is fatal, like the baseline's: main returns 1
\* with the region still mapped.
FinalProbeEarlyReturn ==
    /\ pc = "final_probe"
    /\ \E f \in StatusFiles :
         LET v == get_vmpte_kb(f)
         IN  /\ vmpte_after' = v
             /\ calls' = Append(calls, Call("get_vmpte_kb", NULL, << >>, "", v))
             /\ IF v < 0
                THEN /\ out' = Append(out, Err("Warning: Could not get final VmPTE. Change calculation skipped.", << >>))
                     /\ Return(1)
                ELSE /\ out' = out \o <<Out("Final VmPTE", <<v>>),
                                        Out("VmPTE Change", <<v - vmpte_before>>),
                                        Out("NOTE: VmPTE reflects the *total* process page table size.", << >>)>>
                     /\ Goto("report")
    /\ UNCHANGED <<cmdline, errno, map_size, policy, thp_status, vmpte_before,
                   region, touching, harness>>

\* long vmpte_after = get_vmpte_kb(); the warning, or the final value and
\* the change.
FinalProbe ==
    /\ pc = "final_probe"
    /\ \E f \in StatusFiles :
         LET v == get_vmpte_kb(f)
         IN  /\ vmpte_after' = v
             /\ calls' = Append(calls, Call("get_vmpte_kb", NULL, << >>, "", v))
             /\ out' = IF v < 0
                       THEN Append(out, Err("Warning: Could not get final VmPTE. Change calculation skipped.", << >>))
                       ELSE out \o <<Out("Final VmPTE", <<v>>),
                                     Out("VmPTE Change", <<v - vmpte_before>>),
                                     Out("NOTE: VmPTE reflects the *total* process page table size.", << >>)>>
    /\ Goto("report")
    /\ UNCHANGED <<cmdline, errno, map_size, policy, thp_status, vmpte_before,
                   region, touching, harness>>

\* (map_size + page - 1) / page, as printed beside each overhead.
Entries(size, page) == NatDiv(Wrap(NatSub(NatAdd(size, page), <<1>>)), page)

\* One line of the table: the overhead for a page size, or N/A when the
\* mapping is smaller than the page (never for 4KB pages).
TableLine(label, size, page, always) ==
    IF always \/ NatLeq(page, size)
    THEN Out(label, <<Entries(size, page), PTE_SIZE, calculate_overhead(size, page)>>)
    ELSE Out(label, <<"N/A">>)

\* The theoretical overhead table and the prompt of the checkpoint.
Report ==
    /\ pc = "report"
    /\ out' = out \o
         << Out("--- Theoretical Overhead Calculation (Lowest Level Entries Only) ---", << >>),
            TableLine("If using 4KB pages", map_size, PAGE_SIZE_4K, TRUE),
            TableLine("If using 2MB pages", map_size, PAGE_SIZE_2M, FALSE),
            TableLine("If using 1GB pages", map_size, PAGE_SIZE_1G, FALSE),
            Out("NOTE: These calculations show potential lowest-level entry overhead only.", << >>),
            Out("PID - You may inspect /proc/PID/smaps now, then press Enter...", << >>) >>
    /\ Goto("getchar")
    /\ UNCHANGED <<cmdline, errno, map_size, policy, probes, region, touching,
                   calls, harness>>

\* getchar() returns: the operator answered (or stdin ended).
GetChar ==
    /\ pc = "getchar"
    /\ calls' = Append(calls, Call("getchar", NULL, << >>, "", 0))
    /\ out' = Append(out, Out("--- Unmapping Memory ---", << >>))
    /\ Goto("munmap")
    /\ UNCHANGED <<cmdline, errno, map_size, policy, probes, region, touching,
                   harness>>

\* An unmap whose failure changes the exit status.
MunmapFailureFatal ==
    /\ pc = "munmap"
    /\ \E ret \in {0, -1} :
         /\ calls' = Append(calls, Call("munmap", addr, map_size, "", ret))
         /\ mappings' = IF ret = 0
                        THEN mappings \ {[addr |-> addr, len |-> map_size]}
                        ELSE mappings
         /\ errno' = IF ret = -1 THEN EINVAL ELSE errno
         /\ out' = IF ret = -1
                   THEN Append(out, Err("Error: munmap failed", << >>))
                   ELSE out
         /\ Return(IF ret = -1 THEN 1 ELSE 0)
    /\ UNCHANGED <<cmdline, map_size, policy, probes, addr, touching, harness>>

\* if (munmap(addr, map_size) == -1) perror(...); return 0;
Munmap ==
    /\ pc = "munmap"
    /\ \E ret \in {0, -1} :
         /\ calls' = Append(calls, Call("munmap", addr, map_size, "", ret))
         /\ mappings' = IF ret = 0
                        THEN mappings \ {[addr |-> addr, len |-> map_size]}
                        ELSE mappings
         /\ errno' = IF ret = -1 THEN EINVAL ELSE errno
         /\ out' = IF ret = -1
                   THEN Append(out, Err("Error: munmap failed", << >>))
                   ELSE out
    /\ Return(0)
    /\ UNCHANGED <<cmdline, map_size, policy, probes, addr, touching, harness>>

Next ==
    \/ CheckArgc
    \/ ParseSizeArg
    \/ ParseMode
    \/ PreMmapCheck
    \/ CheckThp
    \/ Baseline
    \/ Mmap
    \/ Madvise
    \/ TouchStep
    \/ FinalProbe
    \/ Report
    \/ GetChar
    \/ Munmap

Spec == Init /\ [][Next]_vars

\* Every step of the sequential program is taken once it can be, except the
\* return of getchar, which waits for the operator.
FairSpec == Spec /\ WF_vars(TouchStep)

\* parse_size on its own: main up to the return of parse_size, on every
\* string of ParseStrings.
ParseInit ==
    /\ pc = "main"
    /\ NoHarness
    /\ \E s \in ParseStrings : Start(3, <<s, <<"4", "k">>>>)

ParseNext == CheckArgc \/ ParseSizeArg

ParseSpec == ParseInit /\ [][ParseNext]_vars

\* calculate_overhead on its own, on every pair of OverheadTotals and
\* OverheadPages.
OverheadInit ==
    /\ pc = "calculate_overhead"
    /\ Start(3, << >>)
    /\ total_size \in OverheadTotals
    /\ page_size \in OverheadPages
    /\ overhead = << >>

CallCalculateOverhead ==
    /\ pc = "calculate_overhead"
    /\ overhead' = calculate_overhead(total_size, page_size)
    /\ pc' = "returned"
    /\ UNCHANGED <<cmdline, exit_status, errno, map_size, policy, probes,
                   region, touching, calls, out, total_size, page_size>>

OverheadSpec == OverheadInit /\ [][CallCalculateOverhead]_vars

\* ------------------------------------------------------------------------
\* Properties
\* ------------------------------------------------------------------------

CallsOf(fn) == {k \in 1..Len(calls) : calls[k].fn = fn}

\* The calls of mmap that returned a mapping.
GoodMmaps == {k \in CallsOf("mmap") : calls[k].ret # MAP_FAILED}

Printed(text) == \E k \in 1..Len(out) : out[k].text = text

\* The place of the first line with this text in the output.
Pos(text) == CHOOSE k \in 1..Len(out) : out[k].text = text

\* What the last call of get_vmpte_kb returned.
LastProbe ==
    LET ks == CallsOf("get_vmpte_kb")
    IN  calls[CHOOSE k \in ks : \A j \in ks : j <= k].ret

ValidTokens == {<<"4", "k">>, <<"t", "h", "p">>, <<"2", "m">>, <<"1", "g">>}

\* main has called parse_size on argv[1], and it has returned.
ParseDone == argc = 3 /\ pc \notin {"main", "parse_size"}

Decimal == {"0", "1", "2", "3", "4", "5", "6", "7", "8", "9"}

SuffixLetters == {"K", "k", "M", "m", "G", "g"}

\* The number of decimal digits the string starts with.
NumDigits(s) ==
    CHOOSE k \in 0..Len(s) :
        /\ \A j \in 1..k : s[j] \in Decimal
        /\ k = Len(s) \/ s[k + 1] \notin Decimal

\* The grammar of a size: digits, then at most one suffix letter.
Grammar(s) ==
    LET k == NumDigits(s)
    IN  k >= 1 /\ (Len(s) = k \/ (Len(s) = k + 1 /\ s[k + 1] \in SuffixLetters))

\* The number the leading digits spell, the power of 1024 the letter after
\* them stands for, and their product over the naturals.
LiteralValue(s) == DecimalValue(s, 1, NumDigits(s) + 1)

Scale(s) ==
    LET c == CharAt(s, NumDigits(s) + 1)
    IN  IF c \in {"K", "k"} THEN 1
        ELSE IF c \in {"M", "m"} THEN 2
        ELSE IF c \in {"G", "g"} THEN 3
        ELSE 0

RECURSIVE Times1024(_, _)
Times1024(n, j) == IF j = 0 THEN n ELSE Times1024(NatMulSmall(n, 1024), j - 1)

Product(s) == Times1024(LiteralValue(s), Scale(s))

\* Representable in size_t.
Fits(n) == NatLess(n, TwoPow64)

\* ceil(t / p) over the naturals, for p > 0.
CeilDiv(t, p) == NatDiv(NatAdd(t, NatSub(p, <<1>>)), p)

\* C1: munmap is called at most once, only after a successful mmap and with
\* that call's address and length, only after getchar has returned, and a run
\* that mapped the region and returned has called it exactly once, whatever
\* madvise and the final probe did.
C1_MunmapExactlyOnce ==
    /\ Cardinality(CallsOf("munmap")) <= 1
    /\ \A k \in CallsOf("munmap") :
         /\ \E j \in GoodMmaps :
              j < k /\ calls[k].addr = calls[j].ret /\ calls[k].len = calls[j].len
         /\ \E g \in CallsOf("getchar") : g < k
    /\ (pc = "exited" /\ GoodMmaps # {}) => Cardinality(CallsOf("munmap")) = 1

\* A run that mapped the region, whose madvise and final probe both failed,
\* has returned after one munmap.
C1_Witness ==
    /\ pc = "exited"
    /\ GoodMmaps # {}
    /\ LastProbe < 0
    /\ \E k \in CallsOf("madvise") : calls[k].ret = -1
    /\ Cardinality(CallsOf("munmap")) = 1

\* The run has ended with status 1 and never called mmap.
FailedBeforeMmap == pc = "exited" /\ exit_status = 1 /\ CallsOf("mmap") = {}

\* C2: once a fatal check before the allocation has failed (the argument
\* count, parse_size, the mode token, the alignment of the size in modes 2m
\* and 1g, the baseline probe), the run has ended with status 1 and mmap was
\* never called.
C2_FatalBeforeAllocation ==
    /\ (argc # 3 /\ pc # "main") => FailedBeforeMmap
    /\ (ParseDone /\ map_size = << >>) => FailedBeforeMmap
    /\ (argc = 3 /\ argv[2] \notin ValidTokens
          /\ pc \notin {"main", "parse_size", "parse_mode"}) => FailedBeforeMmap
    /\ (argc = 3 /\ argv[2] = <<"2", "m">> /\ NatMod(map_size, PAGE_SIZE_2M) # << >>
          /\ pc \notin {"main", "parse_size", "parse_mode", "pre_mmap"}) => FailedBeforeMmap
    /\ (argc = 3 /\ argv[2] = <<"1", "g">> /\ NatMod(map_size, PAGE_SIZE_1G) # << >>
          /\ pc \notin {"main", "parse_size", "parse_mode", "pre_mmap"}) => FailedBeforeMmap
    /\ (CallsOf("get_vmpte_kb") # {} /\ vmpte_before < 0) => FailedBeforeMmap

\* Size 3M in mode 2m has been refused.
C2_Witness ==
    /\ argc = 3
    /\ argv = <<<<"3", "M">>, <<"2", "m">>>>
    /\ map_size = NatOfInt(3 * 1024 * 1024)
    /\ FailedBeforeMmap

\* C3: with two arguments and a mode token other than 4k, thp, 2m, 1g, no
\* kernel state probe is ever called, the run never gets past the mode check,
\* and it ends with status 1.
C3_InvalidModeNoProbe ==
    (argc = 3 /\ argv[2] \notin ValidTokens) =>
        /\ CallsOf("check_thp_status") = {}
        /\ CallsOf("get_vmpte_kb") = {}
        /\ pc \in {"main", "parse_size", "parse_mode", "exited"}
        /\ pc = "exited" => exit_status = 1

\* Token 64k, with a size that parses, has ended the run.
C3_Witness ==
    /\ argc = 3
    /\ argv[2] = <<"6", "4", "k">>
    /\ map_size # << >>
    /\ pc = "exited"
    /\ Printed("Error: Invalid mode")

\* C4: once mmap has succeeded the process is never killed, and a run that
\* has ended returned 0 after the touch report, the three lines of the
\* overhead table, the checkpoint and the munmap attempt, in that order,
\* whatever madvise, the final probe and munmap returned; a failed final
\* probe leaves out the final usage and the change, and nothing else.
C4_AdvisoryFailuresNonFatal ==
    GoodMmaps # {} =>
        /\ pc # "killed"
        /\ pc = "exited" =>
             /\ exit_status = 0
             /\ Printed("Touched strides")
             /\ Printed("If using 4KB pages")
             /\ Printed("If using 2MB pages")
             /\ Printed("If using 1GB pages")
             /\ Printed("PID - You may inspect /proc/PID/smaps now, then press Enter...")
             /\ Printed("--- Unmapping Memory ---")
             /\ Pos("Touched strides") < Pos("If using 4KB pages")
             /\ Pos("If using 4KB pages") < Pos("If using 2MB pages")
             /\ Pos("If using 2MB pages") < Pos("If using 1GB pages")
             /\ Pos("If using 1GB pages")
                  < Pos("PID - You may inspect /proc/PID/smaps now, then press Enter...")
             /\ Pos("PID - You may inspect /proc/PID/smaps now, then press Enter...")
                  < Pos("--- Unmapping Memory ---")
             /\ Cardinality(CallsOf("getchar")) = 1
             /\ Cardinality(CallsOf("munmap")) = 1
             /\ calls[Len(calls)].fn = "munmap"
             /\ (LastProbe < 0) <=> ~Printed("Final VmPTE")
             /\ (LastProbe < 0) <=> ~Printed("VmPTE Change")
             /\ (LastProbe < 0) <=>
                  Printed("Warning: Could not get final VmPTE. Change calculation skipped.")

\* madvise, the final probe and munmap have all failed, and the run returned 0.
C4_Witness ==
    /\ pc = "exited"
    /\ exit_status = 0
    /\ GoodMmaps # {}
    /\ \E k \in CallsOf("madvise") : calls[k].ret = -1
    /\ LastProbe < 0
    /\ \E k \in CallsOf("munmap") : calls[k].ret = -1

\* C5: for a string of decimal digits of value n > 0 with an optional suffix,
\* parse_size returns n times 1, 1024, 1024^2 or 1024^3 (none, K, M, G in
\* either case) when that product fits size_t, and 0 when it does not.
C5_ParsedValue ==
    (ParseDone /\ Grammar(argv[1]) /\ LiteralValue(argv[1]) # << >>) =>
        map_size = IF Fits(Product(argv[1])) THEN Product(argv[1]) ELSE << >>

\* "1G" has parsed to 1073741824.
C5_Witness ==
    /\ ParseDone
    /\ argv[1] = <<"1", "G">>
    /\ map_size = NatOfInt(1073741824)

\* C6: parse_size returns a size only for a string of the grammar; for any
\* other string it returns 0 and main ends with status 1 without calling
\* mmap.
C6_OnlyGrammarAccepted ==
    (ParseDone /\ ~Grammar(argv[1])) =>
        /\ map_size = << >>
        /\ FailedBeforeMmap

\* The error kinds a diagnostic of parse_size may stand for.
KindsOf(msg) ==
    CASE msg = MsgNotANumber -> {"InvalidNumber"}
      [] msg = MsgTooLarge   -> {"InvalidNumber", "Overflow"}
      [] msg = MsgBadSuffix  -> {"InvalidSuffix"}
      [] msg = MsgTrailing   -> {"TrailingGarbage"}
      [] msg = MsgOverflow   -> {"Overflow"}
      [] msg = MsgZero       -> {"ZeroSize"}
      [] OTHER               -> {}

\* The error kind of a string, decided in the order C7 gives.
ClaimedKind(s) ==
    LET k == NumDigits(s)
    IN  IF k = 0 THEN "InvalidNumber"
        ELSE IF Len(s) > k /\ s[k + 1] \notin SuffixLetters THEN "InvalidSuffix"
        ELSE IF Len(s) > k + 1 THEN "TrailingGarbage"
        ELSE IF ~Fits(Product(s)) THEN "Overflow"
        ELSE IF Product(s) = << >> THEN "ZeroSize"
        ELSE "accepted"

\* C7: a string parse_size rejects gets exactly one diagnostic, of the kind
\* the order InvalidNumber, InvalidSuffix, TrailingGarbage, Overflow,
\* ZeroSize gives it.
C7_ErrorKind ==
    (ParseDone /\ map_size = << >>) =>
        /\ Len(out) = 1
        /\ out[1].stream = "stderr"
        /\ ClaimedKind(argv[1]) \in KindsOf(out[1].text)

\* C8: calculate_overhead(total_size, page_size) is ceil(total_size /
\* page_size) * 8 over the naturals for page_size > 0, and 0 for page_size 0.
C8_OverheadIsCeiling ==
    pc = "returned" =>
        overhead = IF page_size = << >> THEN << >>
                   ELSE NatMulSmall(CeilDiv(total_size, page_size), 8)

\* The stride the documentation gives each mode.
StrideOf(token) ==
    CASE token = <<"2", "m">> -> NatOfInt(2097152)
      [] token = <<"1", "g">> -> NatOfInt(1073741824)
      [] OTHER                -> NatOfInt(4096)

\* The offsets k * stride below size.
StrideOffsets(size, stride) ==
    {off \in {NatMulSmall(stride, k) : k \in 0..MaxStrides} : NatLess(off, size)}

\* The touch loop is over.
Touched == GoodMmaps # {} /\ pc \in {"final_probe", "report", "getchar", "munmap", "exited"}

\* Every store so far fell inside the region, and after the loop the stores
\* are one byte at each offset k * stride below the size, their number as
\* counted and reported being ceil(size / stride).
TouchExact ==
    /\ pc # "killed"
    /\ \A m \in mem : NatLess(m.off, map_size)
    /\ Touched =>
         LET stride == StrideOf(argv[2])
         IN  /\ {m.off : m \in mem} = StrideOffsets(map_size, stride)
             /\ Cardinality(mem) = Cardinality(StrideOffsets(map_size, stride))
             /\ touched_count = NatOfInt(Cardinality(mem))
             /\ touched_count = CeilDiv(map_size, stride)
             /\ \E k \in 1..Len(out) :
                  out[k] = Out("Touched strides", <<CeilDiv(map_size, stride)>>)

\* C9: the touch loop terminates, having stored exactly one byte at each
\* offset k * stride below the mapped size and nowhere else, so that the
\* count it reports is ceil(size / stride); no store falls outside the region.
C9_TouchLoop == []TouchExact /\ ((pc = "touch") ~> (pc = "final_probe"))

\* A size that is no multiple of the stride: 9000 bytes in 4096-byte strides
\* took three stores, at 0, 4096 and 8192.
C9_Witness ==
    /\ Touched
    /\ map_size = NatOfInt(9000)
    /\ {m.off : m \in mem} = {<< >>, NatOfInt(4096), NatOfInt(8192)}
    /\ touched_count = <<3>>

\* The policy the system reported, as check_thp_status returned it.
ProbedPolicy == calls[CHOOSE k \in CallsOf("check_thp_status") : TRUE].ret

\* The madvise step is over.
Advised == GoodMmaps # {} /\ pc \in {"touch", "final_probe", "report", "getchar", "munmap", "exited"}

\* What the policy table asks of a run: the hint, "none" for no call.
Hint(token, system) ==
    CASE token = <<"4", "k">> -> "MADV_NOHUGEPAGE"
      [] token = <<"t", "h", "p">> /\ system = "THP_MADVISE" -> "MADV_HUGEPAGE"
      [] OTHER -> "none"

MadviseAsTabled ==
    /\ Cardinality(CallsOf("madvise")) <= 1
    /\ \A k \in CallsOf("madvise") :
         \E j \in GoodMmaps :
            j < k /\ calls[k].addr = calls[j].ret /\ calls[k].len = calls[j].len
    /\ Advised =>
         LET hint == Hint(argv[2], ProbedPolicy)
         IN  IF hint = "none"
             THEN CallsOf("madvise") = {}
             ELSE \E k \in CallsOf("madvise") : calls[k].arg = hint

\* C10: madvise is called at most once, on the region a successful mmap
\* returned, and never once a byte of the region has been touched; after the
\* madvise step the calls made are those of the policy table: NOHUGEPAGE in
\* mode 4k, HUGEPAGE in mode thp exactly when the probed policy is madvise,
\* none in modes 2m and 1g.
C10_MadvisePolicy ==
    /\ []MadviseAsTabled
    /\ [][CallsOf("madvise")' # CallsOf("madvise") => mem = {} /\ mem' = {}]_vars

\* Mode thp under the madvise policy has been advised MADV_HUGEPAGE.
C10_Witness ==
    /\ Advised
    /\ argv[2] = <<"t", "h", "p">>
    /\ ProbedPolicy = "THP_MADVISE"
    /\ \E k \in CallsOf("madvise") : calls[k].arg = "MADV_HUGEPAGE"
    /\ mem # {}

====
